---- MODULE Spec2Model ----
(***************************************************************************)
(* A model of the webhose client library (src/webhose/__init__.py):        *)
(* the Query string builder, Session.search / Session.get, the Response    *)
(* constructor and the paginating generator Response.__iter__.             *)
(*                                                                         *)
(* Python values are tagged records: None, Str(s), List(l), Bool(b).       *)
(* Python strings are TLA+ strings (Len, SubSeq, Tail and \o act on them). *)
(***************************************************************************)
EXTENDS Integers, Sequences, FiniteSets, TLC

VARIABLES
    \* ---- Query builder ----
    query,      \* the Query object's attributes (name -> value), or NoQuery
    assigned,   \* history: the (name, value) assignments, in the caller's order
    rendered,   \* value returned by the latest query_string() call, or NoRender
    \* ---- Session / server / Response ----
    token,      \* Session.token
    pages,      \* the server's result pages (environment data, fixed at Init)
    nreqs,      \* number of HTTP GETs issued so far
    nsearch,    \* number of Session.search calls made so far
    resp,       \* the Response object the caller holds (`self`), or NoResp
    fetched,    \* history: the page most recently wrapped into resp
    firstPage,  \* history: the page resp was constructed from
    lastCall,   \* history: arguments and outcome of the latest search / fetch
    \* ---- the generator created by Response.__iter__ ----
    itpc,       \* "none", "for", "if", "done", "raised"
    itResponse, \* the local `response`: Self (alias of resp) or a Response
    idx,        \* position of the for loop in response.posts
    yielded,    \* history: posts yielded by the current generator
    visited,    \* history: page cursors the current generator looped over
    itFetches,  \* history: next-page fetches issued by the current generator
    itClean,    \* history: every fetch so far got HTTP 200 with a page body
    itLeftAt,   \* history: the page resp described when the generator started
    iterNo      \* history: number of generators started on resp

qvars == <<query, assigned, rendered>>
svars == <<token, pages, nreqs, nsearch, resp, fetched, firstPage, lastCall>>
ivars == <<itpc, itResponse, idx, yielded, visited, itFetches, itClean, itLeftAt,
           iterNo>>
vars == <<query, assigned, rendered, token, pages, nreqs, nsearch, resp, fetched,
          firstPage, lastCall, itpc, itResponse, idx, yielded, visited,
          itFetches, itClean, itLeftAt, iterNo>>

(***************************************************************************)
(* Bounds                                                                  *)
(***************************************************************************)
MaxAssign == 2      \* attribute assignments on one Query
MaxPages == 3       \* result pages the server holds
MaxPosts == 1       \* posts the server holds, over all its pages
MaxSearches == 1    \* Session.search calls in one behaviour
MaxRequests == 4    \* HTTP requests issued in one behaviour
MaxIters == 2       \* generators started on one Response

(***************************************************************************)
(* Python values                                                           *)
(***************************************************************************)
None == [t |-> "None"]
Str(s) == [t |-> "str", v |-> s]
List(l) == [t |-> "list", v |-> l]
Bool(b) == [t |-> "bool", v |-> b]

\* Python truthiness of a value (`if x:`, `x or y`, filter(lambda ...)).
Truthy(x) ==
    CASE x.t = "None" -> FALSE
      [] x.t = "str" -> x.v # ""
      [] x.t = "list" -> Len(x.v) > 0
      [] x.t = "bool" -> x.v

\* Python `a or b`.
Or(a, b) == IF Truthy(a) THEN a ELSE b

\* sep.join(parts) for a sequence of strings.
RECURSIVE Join(_, _)
Join(sep, parts) ==
    IF Len(parts) = 0 THEN ""
    ELSE IF Len(parts) = 1 THEN parts[1]
    ELSE parts[1] \o sep \o Join(sep, Tail(parts))

\* s.replace(" ", new)
RECURSIVE Replace(_, _)
Replace(s, new) ==
    IF Len(s) = 0 THEN ""
    ELSE (IF SubSeq(s, 1, 1) = " " THEN new ELSE SubSeq(s, 1, 1))
         \o Replace(Tail(s), new)

\* The characters of a string, as a sequence of one-character strings
\* (what iterating a Python string yields).
Chars(s) == [i \in 1..Len(s) |-> SubSeq(s, i, i)]

(***************************************************************************)
(* settings.py: the static field classification                            *)
(***************************************************************************)
LIST_FIELDS == <<"site", "organization">>
DIRECT_FIELDS == <<"author", "site_type">>
ALL_FIELDS ==
    <<"all_terms", "exact_phrase", "some_terms", "exclude", "is_first",
      "thread_title", "thread_section_title", "language", "thread_country">>
    \o DIRECT_FIELDS \o LIST_FIELDS

Range(s) == {s[i] : i \in 1..Len(s)}
FieldNames == Range(ALL_FIELDS)

(***************************************************************************)
(* Query                                                                   *)
(***************************************************************************)
NoQuery == [t |-> "NoQuery"]
NoRender == [t |-> "NoRender"]

\* A plausible slip: store the value as given.
setattr_NoWrap(q, name, value) == [q EXCEPT ![name] = value]

\* Query.__setattr__: a string assigned to a list field is wrapped in a list.
setattr(q, name, value) ==
    IF name \in Range(LIST_FIELDS) /\ value.t = "str"
    THEN [q EXCEPT ![name] = List(<<value.v>>)]
    ELSE [q EXCEPT ![name] = value]

\* Query.__init__: every name of ALL_FIELDS is set, through __setattr__, to
\* kwargs.get(name, None); names of kwargs outside ALL_FIELDS are ignored.
RECURSIVE InitFields(_, _, _)
InitFields(q, names, kwargs) ==
    IF Len(names) = 0 THEN q
    ELSE InitFields(
            setattr(q, names[1],
                    IF names[1] \in DOMAIN kwargs THEN kwargs[names[1]] ELSE None),
            Tail(names), kwargs)

QueryInit(kwargs) == InitFields([n \in FieldNames |-> None], ALL_FIELDS, kwargs)

\* The values iterating getattr(self, field) yields: the items of a list,
\* the characters of a string.
IterValues(x) ==
    CASE x.t = "list" -> x.v
      [] x.t = "str" -> Chars(x.v)
      [] OTHER -> <<>>

\* Query.list_string
list_string(q, field) ==
    LET vals == IterValues(q[field])
    IN "(" \o Join(" OR ", [i \in 1..Len(vals) |-> field \o ":" \o vals[i]]) \o ")"

\* Query.direct_string
direct_string(q, field) == field \o ":" \o q[field].v

\* filter(lambda x: getattr(self, x), names)
SetOf(q, names) == SelectSeq(names, LAMBDA n : Truthy(q[n]))

Opt(cond, clause) == IF cond THEN <<clause>> ELSE <<>>

\* A plausible slip: the two catch-all groups extended in the other order.
QsList_ListsFirst(q) ==
    LET direct == SetOf(q, DIRECT_FIELDS)
        lists == SetOf(q, LIST_FIELDS)
    IN Opt(Truthy(q["all_terms"]), q["all_terms"].v)
       \o Opt(Truthy(q["exact_phrase"]), "\"" \o q["exact_phrase"].v \o "\"")
       \o Opt(Truthy(q["some_terms"]),
              "(" \o Replace(q["some_terms"].v, " OR ") \o ")")
       \o Opt(Truthy(q["exclude"]), "-" \o q["exclude"].v)
       \o Opt(Truthy(q["is_first"]), "is_first:true")
       \o Opt(Truthy(q["thread_title"]),
              "thread.title:(" \o q["thread_title"].v \o ")")
       \o Opt(Truthy(q["thread_section_title"]),
              "thread.section_title:(" \o q["thread_section_title"].v \o ")")
       \o Opt(Truthy(q["language"]), "language:(" \o q["language"].v \o ")")
       \o Opt(Truthy(q["thread_country"]),
              "thread.country:" \o q["thread_country"].v)
       \o [i \in 1..Len(lists) |-> list_string(q, lists[i])]
       \o [i \in 1..Len(direct) |-> direct_string(q, direct[i])]

\* The list qs that Query.query_string builds, append by append.
QsList(q) ==
    LET direct == SetOf(q, DIRECT_FIELDS)
        lists == SetOf(q, LIST_FIELDS)
    IN Opt(Truthy(q["all_terms"]), q["all_terms"].v)
       \o Opt(Truthy(q["exact_phrase"]), "\"" \o q["exact_phrase"].v \o "\"")
       \o Opt(Truthy(q["some_terms"]),
              "(" \o Replace(q["some_terms"].v, " OR ") \o ")")
       \o Opt(Truthy(q["exclude"]), "-" \o q["exclude"].v)
       \o Opt(Truthy(q["is_first"]), "is_first:true")
       \o Opt(Truthy(q["thread_title"]),
              "thread.title:(" \o q["thread_title"].v \o ")")
       \o Opt(Truthy(q["thread_section_title"]),
              "thread.section_title:(" \o q["thread_section_title"].v \o ")")
       \o Opt(Truthy(q["language"]), "language:(" \o q["language"].v \o ")")
       \o Opt(Truthy(q["thread_country"]),
              "thread.country:" \o q["thread_country"].v)
       \o [i \in 1..Len(direct) |-> direct_string(q, direct[i])]
       \o [i \in 1..Len(lists) |-> list_string(q, lists[i])]

\* Query.query_string
query_string(q) == Join(" ", QsList(q))

(***************************************************************************)
(* Inputs of the Query operations                                          *)
(***************************************************************************)
StrInputs == {None, Str(""), Str("a b")}
ListInputs == {None, Str("a"), List(<<>>), List(<<"a", "b">>)}
BoolInputs == {None, Bool(FALSE), Bool(TRUE)}

InputsOf(name) ==
    IF name \in Range(LIST_FIELDS) THEN ListInputs
    ELSE IF name = "is_first" THEN BoolInputs
    ELSE StrInputs

\* Keyword arguments handed to Query(...): none, one recognized name, or one
\* recognized name next to a name settings.py does not list.
KwargsInputs ==
    {<<>>}
    \cup {[k \in {"site"} |-> Str("cnn.com")],
          [k \in {"site"} |-> List(<<"a", "b">>)],
          [k \in {"all_terms"} |-> Str("cats")],
          [k \in {"exact_phrase", "bogus"} |-> Str("hello world")]}

\* q = Query(**kwargs): the one Query object a behaviour follows.
NewQuery ==
    /\ query = NoQuery
    /\ \E kwargs \in KwargsInputs :
          /\ query' = QueryInit(kwargs)
          /\ assigned' = <<>>
    /\ rendered' = NoRender
    /\ UNCHANGED <<svars, ivars>>

\* q.<name> = value
SetAttr ==
    /\ query # NoQuery
    /\ Len(assigned) < MaxAssign
    /\ \E name \in FieldNames : \E value \in InputsOf(name) :
          /\ query' = setattr(query, name, value)
          /\ assigned' = Append(assigned, [name |-> name, value |-> value])
    /\ rendered' = NoRender
    /\ UNCHANGED <<svars, ivars>>

\* s = q.query_string()   (also str(q))
QueryString ==
    /\ query # NoQuery
    /\ rendered = NoRender
    /\ rendered' = Str(query_string(query))
    /\ UNCHANGED <<query, assigned, svars, ivars>>

(***************************************************************************)
(* HTTP, the server and its pages                                          *)
(***************************************************************************)
NoResp == [t |-> "NoResp"]
NoHttp == [t |-> "NoHttp"]
Self == [t |-> "self"]
NoCall == [op |-> "none"]

Ok(v) == [ok |-> TRUE, v |-> v]
Raise(exc, arg) == [ok |-> FALSE, exc |-> exc, arg |-> arg]

\* "http://webhose.io/search"
SEARCH_URL == [host |-> "webhose.io", path |-> "/search"]

\* The `ts` cursor of page i, as it travels in a URL.
CursorStr == <<"1", "2", "3", "4", "5", "6", "7", "8", "9", "10", "11", "12">>
PageOfCursor(s) == CHOOSE i \in 1..Len(CursorStr) : CursorStr[i] = s

\* The URL requests builds for session.get(base, params=params): a parameter
\* whose value is None is left out.
RequestUrl(base, params) ==
    [host |-> base.host, path |-> base.path,
     query |-> [k \in {n \in DOMAIN params : params[n] # None} |-> params[k].v]]

\* urljoin(base, ref) for a reference made of a path and a query.
urljoin(base, ref) == [host |-> base.host, path |-> ref.path, query |-> ref.query]

\* The page a request for url is answered with.
ServedPage(url) ==
    IF "ts" \in DOMAIN url.query THEN PageOfCursor(url.query["ts"]) ELSE 1

PagePosts(i) == IF i \in DOMAIN pages THEN pages[i].posts ELSE <<>>
PageMore(i) == IF i \in DOMAIN pages THEN pages[i].more ELSE 0

RECURSIVE PostsFrom(_)
PostsFrom(i) == IF i > Len(pages) THEN 0 ELSE Len(pages[i].posts) + PostsFrom(i + 1)

\* The JSON body the server answers the n-th request with, when it is for url.
ServerJson(url, n) ==
    LET i == ServedPage(url)
    IN [totalResults |-> PostsFrom(i),
        next |-> [path |-> "/search",
                  query |-> [k \in DOMAIN url.query \cup {"ts"} |->
                               IF k = "ts" THEN CursorStr[i + 1] ELSE url.query[k]]],
        requestsLeft |-> MaxRequests - n,
        moreResultsAvailable |-> PageMore(i),
        posts |-> PagePosts(i)]

JsonBody(j) == [t |-> "json", v |-> j]
TextBody == [t |-> "text", v |-> "Internal Server Error"]
ConnErr == [t |-> "ConnectionError"]

\* What the HTTP layer can do with the n-th GET, for url: raise, or return a
\* response with some status and some body.
HttpOutcomes(url, n) ==
    {ConnErr}
    \cup {[t |-> "http", status |-> s, url |-> url, body |-> b] :
            s \in {200, 500}, b \in {JsonBody(ServerJson(url, n)), TextBody}}

WellFormed(o) == o.t = "http" /\ o.body.t = "json"

(***************************************************************************)
(* Post, Thread, Response                                                  *)
(***************************************************************************)
\* Thread.__init__(self, **thread): called with positional arguments args.
ThreadInit(args, kwargs) ==
    IF Len(args) > 0 THEN Raise("TypeError", "Thread.__init__")
    ELSE Ok([t |-> "Thread", title |-> kwargs.title])

\* Post.__init__(self, **post): called with positional arguments args; its
\* last statement is Thread(post["thread"]).
PostInit(args, kwargs) ==
    IF Len(args) > 0 THEN Raise("TypeError", "Post.__init__")
    ELSE LET th == ThreadInit(<<kwargs.thread>>, <<>>)
         IN IF th.ok THEN Ok([t |-> "Post", uuid |-> kwargs.uuid, thread |-> th.v])
            ELSE th

\* Response.extract_next_ts
extract_next_ts(j) ==
    IF "ts" \in DOMAIN j.next.query THEN Ok(j.next.query["ts"])
    ELSE Raise("KeyError", "ts")

\* Response.__init__(self, response, session); the loop calls Post(post).
ResponseInit(http) ==
    IF http.body.t # "json" THEN Raise("ValueError", "json")
    ELSE
      LET j == http.body.v
          ts == extract_next_ts(j)
          ps == [i \in 1..Len(j.posts) |-> PostInit(<<j.posts[i]>>, <<>>)]
      IN IF ~ts.ok THEN ts
         ELSE IF \E i \in 1..Len(ps) : ~ps[i].ok
         THEN ps[CHOOSE i \in 1..Len(ps) :
                   ~ps[i].ok /\ \A k \in 1..(i - 1) : ps[k].ok]
         ELSE Ok([t |-> "Response",
                  response |-> http,
                  total |-> j.totalResults,
                  next |-> urljoin(http.url, j.next),
                  next_ts |-> ts.v,
                  left |-> j.requestsLeft,
                  more |-> j.moreResultsAvailable,
                  posts |-> [i \in 1..Len(ps) |-> ps[i].v]])

\* Session.get after self.session.get(url) ended as o: no look at the status.
SessionGet(o) ==
    IF o.t = "ConnectionError" THEN Raise("ConnectionError", "") ELSE ResponseInit(o)

\* The page a Response's cursor fields describe.
PageOf(r) == PageOfCursor(r.next_ts) - 1

(***************************************************************************)
(* Session                                                                 *)
(***************************************************************************)
TokenInputs == {None, Str(""), Str("tokA")}

\* (query, since) of a search: a raw string, a Query object, a raw string with
\* the cursor of the second page.
SearchInputs ==
    {[q |-> Str("cats"), since |-> None],
     [q |-> [t |-> "Query", v |-> QueryInit([k \in {"site"} |-> Str("cnn.com")])],
      since |-> None],
     [q |-> Str("cats"), since |-> Str("2")]}

\* The generator is not in the middle of a next() call: there is none, it has
\* ended, or it is suspended at its yield.
Suspended == itpc = "for" /\ idx > 0
CallerRuns == itpc \in {"none", "done", "raised"} \/ Suspended

\* config(token) / Session(token), before the caller searches.
Config ==
    /\ CallerRuns
    /\ resp = NoResp
    /\ \E tok \in TokenInputs : token' = tok
    /\ UNCHANGED <<qvars, pages, nreqs, nsearch, resp, fetched, firstPage, lastCall, ivars>>

\* Session.search, lines 150-151.
CredentialMissing(tok, sessionToken) == tok = None /\ sessionToken = None

\* Session.search, lines 153-162.
SearchParams(q, tok, since, sessionToken) ==
    LET qstr == IF q.t = "Query" THEN Str(query_string(q.v)) ELSE q
        base == [k \in {"q", "token"} |->
                    IF k = "q" THEN qstr ELSE Or(tok, sessionToken)]
    IN IF Truthy(since)
       THEN [k \in {"q", "token", "ts"} |-> IF k = "ts" THEN since ELSE base[k]]
       ELSE base

\* Session.search, lines 164-167, after the GET ended as o.
SearchResult(o) ==
    IF o.t = "ConnectionError" THEN Raise("ConnectionError", "")
    ELSE IF o.status # 200 THEN Raise("Exception", o.body)
    ELSE ResponseInit(o)

\* r = session.search(query, token, since); the caller searches until it holds
\* a Response.
Search ==
    /\ CallerRuns
    /\ resp = NoResp
    /\ nreqs < MaxRequests
    /\ nsearch < MaxSearches
    /\ nsearch' = nsearch + 1
    /\ \E in \in SearchInputs, tok \in TokenInputs :
         IF CredentialMissing(tok, token)
         THEN /\ lastCall' = [op |-> "search", tokenArg |-> tok, sessionToken |-> token,
                              nbefore |-> nreqs, issued |-> <<>>, http |-> NoHttp,
                              result |-> Raise("TokenMissingException", "")]
              /\ UNCHANGED <<nreqs, resp, fetched, firstPage, ivars>>
         ELSE
           LET params == SearchParams(in.q, tok, in.since, token)
               url == RequestUrl(SEARCH_URL, params)
               req == [by |-> "search", url |-> url, params |-> params]
           IN \E o \in HttpOutcomes(url, nreqs + 1) :
                LET r == SearchResult(o)
                IN /\ nreqs' = nreqs + 1
                   /\ lastCall' = [op |-> "search", tokenArg |-> tok,
                                   sessionToken |-> token, nbefore |-> nreqs,
                                   issued |-> <<req>>,
                                   http |-> o, result |-> r]
                   /\ IF r.ok
                      THEN /\ resp' = r.v
                           /\ fetched' = [page |-> ServedPage(url), json |-> o.body.v,
                                          url |-> url]
                           /\ firstPage' = ServedPage(url)
                           /\ itpc' = "none"
                           /\ itResponse' = Self
                           /\ idx' = 0
                           /\ yielded' = <<>>
                           /\ visited' = <<>>
                           /\ itFetches' = 0
                           /\ itClean' = TRUE
                           /\ itLeftAt' = 0
                           /\ iterNo' = 0
                      ELSE UNCHANGED <<resp, fetched, firstPage, ivars>>
    /\ UNCHANGED <<qvars, token, pages>>

(***************************************************************************)
(* Response.__iter__                                                       *)
(***************************************************************************)
\* The Response the local `response` refers to.
Cur == IF itResponse = Self THEN resp ELSE itResponse

\* A plausible slip: every iteration starts over from the page the Response
\* was constructed with.
IterEntry_Restart == ResponseInit(resp.response).v

\* Line 94: response = self.
IterEntry == Self

\* A plausible slip: the test inverted.
Exhausted_Inverted(r) == r.more # 0

\* Line 98: response.more == 0.
Exhausted(r) == r.more = 0

\* A plausible slip: the last assignment left out.
Advance_NoNextTs(self, new) ==
    [self EXCEPT !.total = new.total, !.next = new.next, !.left = new.left,
                 !.more = new.more, !.posts = new.posts]

\* Lines 101-106: the six assignments to self.
Advance(self, new) ==
    [self EXCEPT !.total = new.total, !.next = new.next, !.left = new.left,
                 !.more = new.more, !.posts = new.posts, !.next_ts = new.next_ts]

\* it = iter(r); next(it) enters the generator body.
IterStart ==
    /\ resp # NoResp
    /\ CallerRuns
    /\ iterNo < MaxIters
    /\ itResponse' = IterEntry
    /\ itpc' = "for"
    /\ idx' = 0
    /\ yielded' = <<>>
    /\ visited' = <<PageOf(IF itResponse' = Self THEN resp ELSE itResponse')>>
    /\ itFetches' = 0
    /\ itClean' = TRUE
    /\ itLeftAt' = fetched.page
    /\ iterNo' = iterNo + 1
    /\ UNCHANGED <<qvars, svars>>

\* Lines 96-97: the for loop yields the next post of response.posts and
\* suspends, or is through with the list.
ItFor ==
    /\ itpc = "for"
    /\ IF idx < Len(Cur.posts)
       THEN /\ yielded' = Append(yielded, Cur.posts[idx + 1])
            /\ idx' = idx + 1
            /\ itpc' = "for"
       ELSE /\ itpc' = "if"
            /\ UNCHANGED <<yielded, idx>>
    /\ UNCHANGED <<qvars, svars, itResponse, visited, itFetches, itClean, itLeftAt,
                   iterNo>>

\* Lines 98-99: break; the generator ends (StopIteration).
ItBreak ==
    /\ itpc = "if"
    /\ Exhausted(Cur)
    /\ itpc' = "done"
    /\ UNCHANGED <<qvars, svars, itResponse, idx, yielded, visited, itFetches,
                   itClean, itLeftAt, iterNo>>

\* Lines 100-106: response = response.get_next(), then self is overwritten.
\* An exception of get_next leaves the generator through line 100.
ItFetch ==
    /\ itpc = "if"
    /\ ~Exhausted(Cur)
    /\ nreqs < MaxRequests
    /\ LET url == Cur.next
           req == [by |-> "get", url |-> url]
       IN \E o \in HttpOutcomes(url, nreqs + 1) :
            LET r == SessionGet(o)
            IN /\ nreqs' = nreqs + 1
               /\ lastCall' = [op |-> "fetch", nbefore |-> nreqs, issued |-> <<req>>,
                               http |-> o, result |-> r, before |-> resp]
               /\ itFetches' = itFetches + 1
               /\ itClean' = (itClean /\ WellFormed(o) /\ o.status = 200)
               /\ IF r.ok
                  THEN /\ resp' = Advance(resp, r.v)
                       /\ itResponse' = r.v
                       /\ fetched' = [page |-> ServedPage(url), json |-> o.body.v,
                                      url |-> url]
                       /\ itpc' = "for"
                       /\ idx' = 0
                       /\ visited' = Append(visited, PageOf(r.v))
                  ELSE /\ itpc' = "raised"
                       /\ UNCHANGED <<resp, itResponse, fetched, idx, visited>>
    /\ UNCHANGED <<qvars, token, pages, nsearch, firstPage, yielded, itLeftAt,
                   iterNo>>

(***************************************************************************)
(* Specifications                                                          *)
(***************************************************************************)
\* A post of the JSON posts array: its fields and its thread object.
PostJson(i, k) == [uuid |-> 10 * i + k, thread |-> [title |-> 10 * i + k]]

PageInputs ==
    {[posts |-> [k \in 1..n |-> PostJson(0, k)], more |-> m] :
        n \in 0..MaxPosts, m \in 0..1}

RECURSIVE CountPosts(_)
CountPosts(ps) == IF Len(ps) = 0 THEN 0 ELSE Len(ps[1].posts) + CountPosts(Tail(ps))

\* The pages the server holds: the last one reports no more results.
PagesInputs ==
    {ps \in [1..MaxPages -> PageInputs] :
        ps[MaxPages].more = 0 /\ CountPosts(ps) <= MaxPosts}

Renumber(ps) ==
    [i \in DOMAIN ps |->
        [posts |-> [k \in 1..Len(ps[i].posts) |-> PostJson(i, k)],
         more |-> ps[i].more]]

SessionInit ==
    /\ token = None
    /\ nreqs = 0
    /\ nsearch = 0
    /\ resp = NoResp
    /\ fetched = [page |-> 0]
    /\ firstPage = 0
    /\ lastCall = NoCall
    /\ itpc = "none"
    /\ itResponse = Self
    /\ idx = 0
    /\ yielded = <<>>
    /\ visited = <<>>
    /\ itFetches = 0
    /\ itClean = TRUE
    /\ itLeftAt = 0
    /\ iterNo = 0

QueryIdle ==
    /\ query = NoQuery
    /\ assigned = <<>>
    /\ rendered = NoRender

Init ==
    /\ QueryIdle
    /\ SessionInit
    /\ \E ps \in PagesInputs : pages = Renumber(ps)

Next ==
    \/ Config
    \/ Search
    \/ IterStart
    \/ ItFor
    \/ ItBreak
    \/ ItFetch

Spec == Init /\ [][Next]_vars

QInit ==
    /\ QueryIdle
    /\ SessionInit
    /\ pages = <<>>

QNext ==
    \/ NewQuery
    \/ SetAttr
    \/ QueryString

QSpec == QInit /\ [][QNext]_vars

(***************************************************************************)
(* What the properties below speak of                                      *)
(***************************************************************************)
\* The first page at or after i that reports more == 0.
RECURSIVE LastPageFrom(_)
LastPageFrom(i) == IF PageMore(i) = 0 THEN i ELSE LastPageFrom(i + 1)

\* posts(Pi) \o ... \o posts(Pn), as the JSON holds them.
RECURSIVE ConcatPosts(_, _)
ConcatPosts(i, n) == IF i > n THEN <<>> ELSE PagePosts(i) \o ConcatPosts(i + 1, n)

Uuids(ps) == [i \in 1..Len(ps) |-> ps[i].uuid]

\* A token that is there: not None and not empty.
Present(x) == x # None /\ x # Str("")

\* Position of a field in the fixed order of clauses.
Precedence ==
    <<"all_terms", "exact_phrase", "some_terms", "exclude", "is_first",
      "thread_title", "thread_section_title", "language", "thread_country">>
    \o DIRECT_FIELDS \o LIST_FIELDS
Rank(f) == CHOOSE i \in 1..Len(Precedence) : Precedence[i] = f

\* The one clause a set field stands for.
ClauseOf(q, f) ==
    CASE f = "all_terms" -> q[f].v
      [] f = "exact_phrase" -> "\"" \o q[f].v \o "\""
      [] f = "some_terms" -> "(" \o Replace(q[f].v, " OR ") \o ")"
      [] f = "exclude" -> "-" \o q[f].v
      [] f = "is_first" -> "is_first:true"
      [] f = "thread_title" -> "thread.title:(" \o q[f].v \o ")"
      [] f = "thread_section_title" -> "thread.section_title:(" \o q[f].v \o ")"
      [] f = "language" -> "language:(" \o q[f].v \o ")"
      [] f = "thread_country" -> "thread.country:" \o q[f].v
      [] f \in Range(DIRECT_FIELDS) -> direct_string(q, f)
      [] f \in Range(LIST_FIELDS) -> list_string(q, f)

\* What marks the clause of a field in a rendered string (the values the
\* model assigns hold none of these).
Marker ==
    [f \in FieldNames \ {"all_terms", "exact_phrase", "some_terms"} |->
        CASE f = "exclude" -> "-"
          [] f = "is_first" -> "is_first:true"
          [] f = "thread_title" -> "thread.title:("
          [] f = "thread_section_title" -> "thread.section_title:("
          [] f = "language" -> "language:("
          [] f = "thread_country" -> "thread.country:"
          [] f \in Range(DIRECT_FIELDS) -> f \o ":"
          [] f \in Range(LIST_FIELDS) -> "(" \o f \o ":"]

\* One clause for every set field, in the fixed order.
ExpectedClauses(q) ==
    LET fs == SelectSeq(Precedence, LAMBDA f : q[f] # None /\ Truthy(q[f]))
    IN [i \in 1..Len(fs) |-> ClauseOf(q, fs[i])]

\* (field:v1 OR ... OR field:vn)
RECURSIVE OrGroup(_, _)
OrGroup(f, vals) ==
    IF Len(vals) = 1 THEN f \o ":" \o vals[1]
    ELSE f \o ":" \o vals[1] \o " OR " \o OrGroup(f, Tail(vals))

\* Occurrences of part in whole.
Occurrences(whole, part) ==
    Cardinality({i \in 1..(Len(whole) - Len(part) + 1) :
                    SubSeq(whole, i, i + Len(part) - 1) = part})

(***************************************************************************)
(* Properties                                                              *)
(***************************************************************************)
\* C1: an iteration that ended, all of whose fetches were answered with
\* HTTP 200 and a page, ended normally and yielded exactly
\* posts(P1) \o ... \o posts(Pn), Pn the first page reporting more == 0.
C1_IterationYieldsAllPages ==
    (itpc \in {"done", "raised"} /\ itClean /\ iterNo = 1) =>
        /\ itpc = "done"
        /\ Uuids(yielded) = Uuids(ConcatPosts(firstPage, LastPageFrom(firstPage)))

\* C2: a next-page fetch is issued only when the current page reports
\* more != 0 and all its posts have been yielded; a generator that ended on
\* more == 0 stays ended and fetches nothing; a generator started on a page
\* reporting more == 0 ends having yielded that page's posts with no fetch.
C2_FetchOnlyAfterPageWhenMore ==
    /\ [][(nreqs' > nreqs /\ lastCall'.op = "fetch") =>
             /\ Cur.more # 0
             /\ idx = Len(Cur.posts)
             /\ Len(yielded) >= Len(Cur.posts)
             /\ SubSeq(yielded, Len(yielded) - Len(Cur.posts) + 1, Len(yielded))
                  = Cur.posts]_vars
    /\ [][(itpc = "done" /\ iterNo' = iterNo) =>
             (itpc' = "done" /\ nreqs' = nreqs /\ yielded' = yielded)]_vars
    /\ [](itpc # "none" /\ PageMore(visited[1]) = 0 =>
             /\ itFetches = 0
             /\ itpc = "done" => Uuids(yielded) = Uuids(PagePosts(visited[1])))

C2_Witness ==
    /\ itpc = "done"
    /\ itFetches = 2
    /\ PageMore(visited[Len(visited)]) = 0

\* C3: a generator started on a Response that an earlier generator advanced
\* past its first page starts at the page the Response was left at, not at
\* the first page, and yields no post of an earlier page.
C3_SecondIterationResumes ==
    (iterNo >= 2 /\ itLeftAt > firstPage) =>
        /\ visited[1] = itLeftAt
        /\ visited[1] # firstPage
        /\ \A i \in 1..Len(visited) : visited[i] >= itLeftAt
        /\ \A i \in 1..Len(yielded) : yielded[i].uuid \div 10 >= itLeftAt

C3_Witness ==
    /\ iterNo = 2
    /\ itLeftAt > firstPage
    /\ itpc = "done"

\* C4: the total, more, left, posts, next and next_ts of the Response are
\* those of the page most recently fetched into it, all six at once.
C4_FieldsDescribeFetchedPage ==
    resp # NoResp =>
        /\ resp.total = fetched.json.totalResults
        /\ resp.more = fetched.json.moreResultsAvailable
        /\ resp.left = fetched.json.requestsLeft
        /\ Uuids(resp.posts) = Uuids(fetched.json.posts)
        /\ resp.next = urljoin(fetched.url, fetched.json.next)
        /\ resp.next_ts = fetched.json.next.query["ts"]
        /\ resp.next_ts = CursorStr[fetched.page + 1]

C4_Witness ==
    /\ resp # NoResp
    /\ lastCall.op = "fetch"
    /\ lastCall.result.ok
    /\ resp # lastCall.before
    /\ fetched.page = firstPage + 2

\* C5: search raises the missing-credential error, with no request issued,
\* when neither a call token nor a session token is present; a request it
\* issues carries the call token when present, else the session token, and
\* that token is present.
C5_TokenResolvedAndPresent ==
    lastCall.op = "search" =>
        LET eff == IF Present(lastCall.tokenArg) THEN lastCall.tokenArg
                   ELSE lastCall.sessionToken
        IN /\ (~Present(lastCall.tokenArg) /\ ~Present(lastCall.sessionToken)) =>
                 /\ ~lastCall.result.ok
                 /\ lastCall.result.exc = "TokenMissingException"
                 /\ lastCall.issued = <<>>
           /\ lastCall.issued # <<>> =>
                 /\ Present(eff)
                 /\ lastCall.issued[1].params["token"] = eff

\* C6: a search past the credential check, sent with a token, issues exactly one GET to the search
\* endpoint; on a status other than 200 it raises an error carrying the body
\* and returns no Response; on 200 with a page it returns a Response wrapping
\* that result.
C6_OneGetThenRaiseOrReturn ==
    (/\ lastCall.op = "search"
     /\ lastCall.http.t = "http"
     /\ Present(lastCall.issued[1].params["token"])) =>
        /\ Len(lastCall.issued) = 1
        /\ lastCall.issued[1].url.host = SEARCH_URL.host
        /\ lastCall.issued[1].url.path = SEARCH_URL.path
        /\ nreqs = lastCall.nbefore + 1
        /\ lastCall.http.status # 200 =>
              /\ ~lastCall.result.ok
              /\ lastCall.result.exc = "Exception"
              /\ lastCall.result.arg = lastCall.http.body
              /\ resp = NoResp
        /\ (lastCall.http.status = 200 /\ lastCall.http.body.t = "json") =>
              /\ lastCall.result.ok
              /\ lastCall.result.v.response = lastCall.http

\* C7: the Response of a successful search (sent with a token, HTTP 200, a
\* page with every field) holds one Post per element of the JSON posts array, in its order,
\* each with a Thread built from the element's thread object.
C7_PostsMirrorJsonArray ==
    (/\ lastCall.op = "search"
     /\ lastCall.http.t = "http"
     /\ lastCall.http.status = 200
     /\ lastCall.http.body.t = "json"
     /\ Present(lastCall.issued[1].params["token"])) =>
        /\ lastCall.result.ok
        /\ LET ps == lastCall.result.v.posts
               js == lastCall.http.body.v.posts
           IN /\ Len(ps) = Len(js)
              /\ \A i \in 1..Len(js) :
                    /\ ps[i].uuid = js[i].uuid
                    /\ ps[i].thread.title = js[i].thread.title

\* C8: the rendered string is the clauses of the set fields, one each, in the
\* fixed order, joined by single spaces, whatever the order of assignment.
C8_FixedClauseOrder ==
    rendered # NoRender =>
        /\ rendered.v = Join(" ", ExpectedClauses(query))
        /\ \A f \in DOMAIN Marker :
              /\ query[f] = None => Occurrences(rendered.v, Marker[f]) = 0
              /\ Occurrences(rendered.v, Marker[f]) <= 1

C8_Witness ==
    /\ rendered # NoRender
    /\ Len(assigned) = 2
    /\ Rank(assigned[1].name) > Rank(assigned[2].name)
    /\ Truthy(query[assigned[1].name])
    /\ Truthy(query[assigned[2].name])
    /\ assigned[1].name \in Range(LIST_FIELDS)
    /\ assigned[2].name \in Range(DIRECT_FIELDS)

\* C9: a list field never holds a bare string; a string assigned to it is
\* stored as a one-element list; a set list field renders as the one group
\* (field:v1 OR ... OR field:vn).
C9_ListFieldsHoldLists ==
    query # NoQuery =>
        /\ \A f \in Range(LIST_FIELDS) : query[f].t \in {"None", "list"}
        /\ Len(assigned) > 0 =>
              LET a == assigned[Len(assigned)]
              IN (a.name \in Range(LIST_FIELDS) /\ a.value.t = "str") =>
                    query[a.name] = List(<<a.value.v>>)
        /\ rendered # NoRender =>
              \A f \in Range(LIST_FIELDS) :
                 Truthy(query[f]) =>
                    Occurrences(rendered.v, "(" \o OrGroup(f, query[f].v) \o ")") = 1

C9_Witness ==
    /\ rendered = Str("(site:a)")
    /\ Len(assigned) = 1
    /\ assigned[1] = [name |-> "site", value |-> Str("a")]
    /\ query["site"] = List(<<"a">>)

\* C10: a failed next-page fetch leaves the Response as it was and is not
\* tried again; a fetch answered with a status other than 200 fails.
C10_FailedFetchLeavesResponse ==
    lastCall.op = "fetch" =>
        /\ ~lastCall.result.ok =>
              /\ resp = lastCall.before
              /\ nreqs = lastCall.nbefore + 1
        /\ (lastCall.http.t = "http" /\ lastCall.http.status # 200) =>
              ~lastCall.result.ok

====
